---- MODULE Spec2Model ----
(***************************************************************************)
(* The try-on job pipeline of backend/app: the job store                   *)
(* (app/infra/db/crud.py over app/infra/db/models.py) and the worker loop  *)
(* that drives it (app/workers/worker.py), run by several worker processes *)
(* against one shared store.                                               *)
(*                                                                         *)
(* A store row is a record of the columns the operations read or write.    *)
(* A worker's SQLAlchemy session is modelled by what it does to the store: *)
(* an object loaded by a SELECT is a snapshot of the row; commit() issues  *)
(* UPDATE ... WHERE id = :id for the columns whose assigned value differs  *)
(* from the snapshot (every assigned column when the object was expired by *)
(* an earlier commit), and expires the object.                             *)
(*                                                                         *)
(* Columns written but never read by any operation (completed_at,          *)
(* updated_at, processing_ms, tenant ids) are not tracked.                 *)
(***************************************************************************)
EXTENDS Integers, Sequences, FiniteSets, TLC

\* ---------------------------------------------------------------- bounds
NumWorkers == 2
MaxJobs == 2
\* the clock advances in steps of TickSeconds, MaxTicks times at most
MaxTicks == 1
\* process_one is called directly (outside loop) MaxDirect times at most
MaxDirect == 1
TickSeconds == 300

\* ------------------------------------------------------ program constants
\* fail_stuck_jobs(db, timeout_seconds=240)
TimeoutSeconds == 240
\* TryOnJob.max_attempts default
DefaultMaxAttempts == 2
\* mark_error: (error_message or "")[:2000]
MaxErrorMessageLen == 2000
\* len("Job ficou travado em processing e foi finalizado por timeout.")
WatchdogMessageLen == 61
\* len of the POSE_NOT_FOUND text of process_one
PoseMessageLen == 75
\* len("Falha ao salvar imagem resultado.")
WriteMessageLen == 33

Workers == 1..NumWorkers
JobIds == 1..MaxJobs
MaxNow == MaxTicks * TickSeconds

\* SQL NULL of an integer, timestamp or path column, and of a text column
Null == -1
NullStr == "NULL"

PersonRefs == {"person_a", "person_no_torso"}

\* the person photos in which the anchor locator finds no usable shoulders
NoPosePhotos == {"person_no_torso"}
GarmentRefs == {"garment_a"}
\* lengths of f"{type(e).__name__}: {e}" for the failures process_one wraps
ErrTextLens == {2001}

VARIABLES
    db,          \* the tryon_jobs table: a sequence of rows, the id is the index
    now,         \* utcnow(), in seconds
    skipLocked,  \* whether the store executes SELECT ... FOR UPDATE SKIP LOCKED
    lock,        \* lock[j]: the worker holding the row lock of job j, or 0
    wk,          \* wk[w]: worker w's position and session state
    artifacts,   \* ids of the jobs whose result file RESULTS_DIR/<id>.png exists
    direct,      \* the number of direct process_one calls made so far
    claims,      \* claims[j]: how many claim_next_job calls have returned job j
    call,        \* the call of a stateless function or request handler under study
    limiter      \* the SimpleRateLimiter of app/api/deps.py, its clock and callers

vars == <<db, now, skipLocked, lock, wk, artifacts, direct, claims, call, limiter>>

\* no stateless call is under study
NoCall == [fn |-> "none"]

\* the threads of the API process that run rate_limit
NumThreads == 2
Threads == 1..NumThreads

\* defaultdict(self._new_bucket): no bucket has been made for the key yet
NoBucket == [exists |-> FALSE, tokens |-> 0, ts |-> 0, cap |-> 0]

\* a thread outside SimpleRateLimiter.check
IdleThread == [pc |-> "idle", now |-> 0, rpm |-> 1, result |-> "none"]

\* SimpleRateLimiter() at import of app/api/deps.py, with time.monotonic() at 0;
\* checks, allowed and rpms record the calls made so far
NewLimiter ==
    [clock |-> 0, bucket |-> NoBucket, holder |-> 0,
     th |-> [t \in Threads |-> IdleThread],
     checks |-> 0, allowed |-> 0, rpms |-> {}]

\* ------------------------------------------------------------- the store

\* a create_job that stores the two references in each other's column
NewRowSwapped(person, garment, t) ==
    [status |-> "queued",
     person |-> garment,
     garment |-> person,
     result |-> Null,
     error_code |-> NullStr,
     error_message |-> Null,
     attempts |-> 0,
     max_attempts |-> DefaultMaxAttempts,
     processing_started_at |-> Null,
     created_at |-> t]

\* a create_job that stores a job with its attempts already used up
NewRowExhausted(person, garment, t) ==
    [status |-> "queued",
     person |-> person,
     garment |-> garment,
     result |-> Null,
     error_code |-> NullStr,
     error_message |-> Null,
     attempts |-> DefaultMaxAttempts,
     max_attempts |-> DefaultMaxAttempts,
     processing_started_at |-> Null,
     created_at |-> t]

\* TryOnJob(person_image_path, garment_image_path, status="queued") with the
\* column defaults
NewRow(person, garment, t) ==
    [status |-> "queued",
     person |-> person,
     garment |-> garment,
     result |-> Null,
     error_code |-> NullStr,
     error_message |-> Null,
     attempts |-> 0,
     max_attempts |-> DefaultMaxAttempts,
     processing_started_at |-> Null,
     created_at |-> t]

\* result path RESULTS_DIR / f"{job.id}.png": determined by the id alone
ResultPath(j) == j

\* the session's UPDATE at commit: an assigned column is written when the
\* object was expired or the value differs from the loaded one
Flush(cur, loaded, expired, assigned) ==
    [f \in DOMAIN cur |->
        IF f \in DOMAIN assigned /\ (expired \/ assigned[f] # loaded[f])
        THEN assigned[f]
        ELSE cur[f]]

\* an UPDATE of row j by worker w waits while another session holds its lock
CanWrite(w, j) == lock[j] \in {0, w}

Min(a, b) == IF a < b THEN a ELSE b

Ids == 1..Len(db)

\* ------------------------------------------------- crud.py: the operations

\* a sweep whose cutoff lies twice the timeout back
IsStuckAfterTwiceTimeout(row, t) ==
    /\ row.status = "processing"
    /\ row.processing_started_at # Null
    /\ row.processing_started_at < t - 2 * TimeoutSeconds

\* fail_stuck_jobs: the filter of its SELECT, with cutoff = now - timeout
IsStuck(row, t) ==
    /\ row.status = "processing"
    /\ row.processing_started_at # Null
    /\ row.processing_started_at < t - TimeoutSeconds

\* a sweep that records the timeout text without the error code
FailStuckAssignNoCode(loaded) ==
    [status |-> "error",
     error_message |-> WatchdogMessageLen]

\* a sweep that also sets the attempts of the jobs it fails back to 0
FailStuckAssignResetting(loaded) ==
    [status |-> "error",
     error_code |-> "WORKER_TIMEOUT",
     error_message |-> WatchdogMessageLen,
     attempts |-> 0]

\* fail_stuck_jobs: what it assigns to every selected job
FailStuckAssign(loaded) ==
    [status |-> "error",
     error_code |-> "WORKER_TIMEOUT",
     error_message |-> WatchdogMessageLen]

\* a claim that also takes the jobs in error
ClaimableOrFailed(row) == row.status \in {"queued", "error"}

\* a claim whose SELECT matches no row
ClaimableNever(row) == FALSE

\* claim_next_job: WHERE status == "queued" (both strategies)
Claimable(row) == row.status = "queued"

\* a claim that takes any candidate row, whatever its created_at
AnyCandidate(cands) == cands

\* claim_next_job: ORDER BY created_at ASC LIMIT 1 over the candidate ids
Oldest(cands) == {j \in cands : \A k \in cands : db[j].created_at <= db[k].created_at}

\* a claim that leaves processing_started_at unset
ClaimAssignNoStart(loaded, t) ==
    [status |-> "processing",
     processing_started_at |-> Null,
     error_code |-> NullStr,
     error_message |-> Null,
     attempts |-> loaded.attempts + 1]

\* claim_next_job: what it assigns to the selected job
ClaimAssign(loaded, t) ==
    [status |-> "processing",
     processing_started_at |-> t,
     error_code |-> NullStr,
     error_message |-> Null,
     attempts |-> loaded.attempts + 1]

\* mark_processing
MarkProcessingAssign(loaded, t) ==
    [status |-> "processing",
     processing_started_at |-> t,
     error_code |-> NullStr,
     error_message |-> Null,
     attempts |-> loaded.attempts + 1]

\* mark_done
MarkDoneAssign(result_path) ==
    [status |-> "done",
     result |-> result_path,
     error_code |-> NullStr,
     error_message |-> Null]

\* mark_error: the message is cut to 2000 characters
MarkErrorAssign(error_code, msglen) ==
    [status |-> "error",
     error_code |-> error_code,
     error_message |-> Min(msglen, MaxErrorMessageLen)]

\* ----------------------------------------------- worker.py: process_one

\* process_one: a job that is neither queued nor processing is not touched
Processable(row) == row.status \in {"queued", "processing"}

\* a process_one that marks every job it runs as processing again
AlwaysMarkProcessing(row) == TRUE

\* process_one: mark_processing is called only for a job read as queued
NeedsMarkProcessing(row) == row.status = "queued"

\* process_one: the stable code and the text length recorded for a failure
ErrorCodeOf(outcome) ==
    CASE outcome = "POSE_NOT_FOUND" -> "POSE_NOT_FOUND"
      [] outcome = "WRITE_FAILED" -> "WRITE_FAILED"
      [] OTHER -> "WORKER_ERROR"

HumanLens(code) ==
    CASE code = "POSE_NOT_FOUND" -> {PoseMessageLen}
      [] code = "WRITE_FAILED" -> {WriteMessageLen}
      [] OTHER -> ErrTextLens

\* what the image pipeline of process_one can end with
Outcomes == {"OK", "POSE_NOT_FOUND", "WRITE_FAILED", "OTHER"}

\* the statements of the image pipeline of process_one, in program order
PipelineStages ==
    <<"read_person", "read_garment", "anchor", "cutout", "resize", "overlay",
      "ensure_dir", "imwrite">>

StageIndex(name) == CHOOSE i \in 1..Len(PipelineStages) : PipelineStages[i] = name

\* the statements at which a run is taken to raise another exception: an
\* unreadable image, a failing segmentation, a raising file write
RaisingStages == {"read_person", "cutout", "imwrite"}

\* a run of the pipeline: <<n, outcome>>, the first n statements were entered.
\* It ends OK after cv2.imwrite returned true, POSE_NOT_FOUND at the anchor
\* (None returned), WRITE_FAILED at cv2.imwrite (false returned), and with
\* another exception at one of the raising statements.
PipelineRuns ==
    {r \in (1..Len(PipelineStages)) \X Outcomes :
        CASE r[2] = "OK" -> r[1] = Len(PipelineStages)
          [] r[2] = "POSE_NOT_FOUND" -> r[1] = StageIndex("anchor")
          [] r[2] = "WRITE_FAILED" -> r[1] = StageIndex("imwrite")
          [] OTHER -> PipelineStages[r[1]] \in RaisingStages}

\* the runs process_one can make on a person photo: the anchor locator is a
\* function of the image, so a photo without usable shoulders never gets past
\* it and a photo with them never ends POSE_NOT_FOUND
RunsOn(person) ==
    {r \in PipelineRuns :
        IF person \in NoPosePhotos
        THEN r[1] <= StageIndex("anchor") /\ (r[1] = StageIndex("anchor") => r[2] = "POSE_NOT_FOUND")
        ELSE r[2] # "POSE_NOT_FOUND"}

\* ------------------------------------------------------------ the session

IdleWorker ==
    [pc |-> "idle", mode |-> "loop", jid |-> 0, snap |-> NewRow("person_a", "garment_a", 1),
     expired |-> FALSE, code |-> NullStr, stuck |-> {}, stages |-> 0]

Init ==
    /\ db = <<>>
    /\ now = 0
    /\ skipLocked \in BOOLEAN
    /\ lock = [j \in JobIds |-> 0]
    /\ wk = [w \in Workers |-> IdleWorker]
    /\ artifacts = {}
    /\ direct = 0
    /\ claims = [j \in JobIds |-> 0]
    /\ call = NoCall
    /\ limiter = NewLimiter

\* ------------------------------------------------------------ operations

\* create_job(db, person_path, garment_path)
CreateJob(person, garment) ==
    /\ Len(db) < MaxJobs
    /\ db' = Append(db, NewRow(person, garment, Len(db) + 1))
    /\ UNCHANGED <<now, skipLocked, lock, wk, artifacts, direct, claims>>
    /\ UNCHANGED <<call, limiter>>

\* time passes
Tick ==
    /\ now < MaxNow
    /\ now' = now + TickSeconds
    /\ UNCHANGED <<db, skipLocked, lock, wk, artifacts, direct, claims>>
    /\ UNCHANGED <<call, limiter>>

\* loop: fail_stuck_jobs, its SELECT; with nothing selected it commits nothing
SweepSelect(w) ==
    /\ wk[w].pc = "idle"
    /\ LET found == {j \in Ids : IsStuck(db[j], now)} IN
        wk' = [wk EXCEPT ![w] = [@ EXCEPT
                 !.pc = IF found = {} THEN "claim" ELSE "sweep_commit",
                 !.stuck = {<<j, db[j]>> : j \in found}]]
    /\ UNCHANGED <<db, now, skipLocked, lock, artifacts, direct, claims>>
    /\ UNCHANGED <<call, limiter>>

\* loop: fail_stuck_jobs, the assignments and the commit; the jobs it failed
\* stay on record (wk[w].stuck) until the iteration's claim_next_job returns
SweepCommit(w) ==
    /\ wk[w].pc = "sweep_commit"
    /\ \A e \in wk[w].stuck : CanWrite(w, e[1])
    /\ db' = [j \in Ids |->
                IF \E e \in wk[w].stuck : e[1] = j
                THEN LET e == CHOOSE e \in wk[w].stuck : e[1] = j IN
                     Flush(db[j], e[2], FALSE, FailStuckAssign(e[2]))
                ELSE db[j]]
    /\ wk' = [wk EXCEPT ![w] = [@ EXCEPT !.pc = "claim"]]
    /\ UNCHANGED <<now, skipLocked, lock, artifacts, direct, claims>>
    /\ UNCHANGED <<call, limiter>>

\* a claim that does not skip the rows another claimer has locked
ClaimCandidatesIgnoringLocks(w) == {j \in Ids : Claimable(db[j])}

\* claim_next_job: the rows its SELECT can return. With skip-locked row locks
\* the rows locked by another claimer are skipped; the fallback SELECT takes
\* no lock and skips nothing.
ClaimCandidates(w) ==
    IF skipLocked
    THEN {j \in Ids : Claimable(db[j]) /\ lock[j] = 0}
    ELSE {j \in Ids : Claimable(db[j])}

\* loop: claim_next_job, its SELECT; the row is locked until the commit when
\* the store locks rows; no row: rollback, return None, sleep, next iteration
ClaimSelect(w) ==
    /\ wk[w].pc = "claim"
    /\ \/ /\ ClaimCandidates(w) = {}
          /\ wk' = [wk EXCEPT ![w] = IdleWorker]
          /\ UNCHANGED lock
       \/ \E j \in Oldest(ClaimCandidates(w)) :
          /\ wk' = [wk EXCEPT ![w] = [@ EXCEPT
                      !.pc = "claim_commit", !.jid = j, !.snap = db[j]]]
          /\ lock' = IF skipLocked THEN [lock EXCEPT ![j] = w] ELSE lock
    /\ UNCHANGED <<db, now, skipLocked, artifacts, direct, claims>>
    /\ UNCHANGED <<call, limiter>>

\* a claim whose transaction stays open while the job is processed: the
\* assignments are visible but the row lock is still held
ClaimCommitHoldingLock(w) ==
    /\ wk[w].pc = "claim_commit"
    /\ CanWrite(w, wk[w].jid)
    /\ db' = [db EXCEPT ![wk[w].jid] =
                Flush(@, wk[w].snap, FALSE, ClaimAssign(wk[w].snap, now))]
    /\ claims' = [claims EXCEPT ![wk[w].jid] = @ + 1]
    /\ wk' = [wk EXCEPT ![w] = [IdleWorker EXCEPT !.pc = "load", !.jid = wk[w].jid]]
    /\ UNCHANGED <<now, skipLocked, lock, artifacts, direct>>
    /\ UNCHANGED <<call, limiter>>

\* loop: claim_next_job, the assignments and the commit; then process_one(job.id)
ClaimCommit(w) ==
    /\ wk[w].pc = "claim_commit"
    /\ CanWrite(w, wk[w].jid)
    /\ db' = [db EXCEPT ![wk[w].jid] =
                Flush(@, wk[w].snap, FALSE, ClaimAssign(wk[w].snap, now))]
    /\ lock' = [lock EXCEPT ![wk[w].jid] = 0]
    /\ claims' = [claims EXCEPT ![wk[w].jid] = @ + 1]
    /\ wk' = [wk EXCEPT ![w] = [IdleWorker EXCEPT !.pc = "load", !.jid = wk[w].jid]]
    /\ UNCHANGED <<now, skipLocked, artifacts, direct>>
    /\ UNCHANGED <<call, limiter>>

\* process_one: get_job and the status check; for a job read as processing,
\* job_log("processing started") follows at once, and a failing log write goes
\* to the handler
Load(w, j, mode) ==
    /\ \/ /\ ~Processable(db[j])
          /\ wk' = [wk EXCEPT ![w] = IdleWorker]
       \/ /\ Processable(db[j])
          /\ NeedsMarkProcessing(db[j])
          /\ wk' = [wk EXCEPT ![w] = [@ EXCEPT
                      !.pc = "mark_processing", !.mode = mode, !.jid = j,
                      !.snap = db[j], !.expired = FALSE]]
       \/ /\ Processable(db[j])
          /\ ~NeedsMarkProcessing(db[j])
          /\ \E logged \in BOOLEAN :
               wk' = [wk EXCEPT ![w] = [@ EXCEPT
                        !.pc = IF logged THEN "pipeline" ELSE "mark_error",
                        !.code = IF logged THEN NullStr ELSE ErrorCodeOf("OTHER"),
                        !.mode = mode, !.jid = j, !.snap = db[j], !.expired = FALSE]]
    /\ UNCHANGED <<db, now, skipLocked, lock, artifacts>>
    /\ UNCHANGED <<call, limiter>>

\* loop: process_one(str(job.id)) for the job claim_next_job returned
LoopProcessOne(w) ==
    /\ wk[w].pc = "load"
    /\ Load(w, wk[w].jid, "loop")
    /\ UNCHANGED <<direct, claims>>

\* process_one(job_id) called directly for an existing job (debug/admin use)
DirectProcessOne(w, j) ==
    /\ wk[w].pc = "idle"
    /\ j \in Ids
    /\ direct < MaxDirect
    /\ direct' = direct + 1
    /\ Load(w, j, "direct")
    /\ UNCHANGED claims

\* process_one: mark_processing(db, job); its commit expires the job object
MarkProcessing(w) ==
    /\ wk[w].pc = "mark_processing"
    /\ CanWrite(w, wk[w].jid)
    /\ db' = [db EXCEPT ![wk[w].jid] =
                Flush(@, wk[w].snap, wk[w].expired, MarkProcessingAssign(wk[w].snap, now))]
    /\ wk' = [wk EXCEPT ![w] = [@ EXCEPT !.pc = "log_start", !.expired = TRUE]]
    /\ UNCHANGED <<now, skipLocked, lock, artifacts, direct, claims>>
    /\ UNCHANGED <<call, limiter>>

\* process_one after mark_processing: job_log("processing started"), then the
\* first read of the expired job reloads it. A failing log write goes to the
\* handler.
LogStart(w) ==
    /\ wk[w].pc = "log_start"
    /\ \/ wk' = [wk EXCEPT ![w] = [@ EXCEPT
                   !.pc = "pipeline", !.snap = db[wk[w].jid], !.expired = FALSE]]
       \/ wk' = [wk EXCEPT ![w] = [@ EXCEPT
                   !.pc = "mark_error", !.code = ErrorCodeOf("OTHER")]]
    /\ UNCHANGED <<db, now, skipLocked, lock, artifacts, direct, claims>>
    /\ UNCHANGED <<call, limiter>>

\* what a run of the pipeline can leave of the result files: cv2.imwrite
\* returning true leaves the file of the job written; a run that fails inside
\* cv2.imwrite leaves a file that was there before either as it was or
\* truncated; a run that ends earlier touches no file
FilesAfter(files, j, r) ==
    IF r[2] = "OK" THEN {files \cup {j}}
    ELSE IF r[1] = StageIndex("imwrite") THEN {files, files \ {j}}
    ELSE {files}

\* process_one: read the images, locate the anchor, cut out, composite, write
\* the result file; wk[w].stages records how many statements were entered
Pipeline(w) ==
    /\ wk[w].pc = "pipeline"
    /\ \E r \in RunsOn(wk[w].snap.person) :
        /\ artifacts' \in FilesAfter(artifacts, wk[w].jid, r)
        /\ IF r[2] = "OK"
           THEN wk' = [wk EXCEPT ![w] = [@ EXCEPT
                         !.pc = "mark_done", !.stages = r[1]]]
           ELSE wk' = [wk EXCEPT ![w] = [@ EXCEPT
                         !.pc = "mark_error", !.code = ErrorCodeOf(r[2]),
                         !.stages = r[1]]]
    /\ UNCHANGED <<db, now, skipLocked, lock, direct, claims>>
    /\ UNCHANGED <<call, limiter>>

\* process_one: mark_done(db, job, str(out_path)), then job_log("done -> ...")
\* and return True; a failing log write goes to the handler
MarkDone(w) ==
    /\ wk[w].pc = "mark_done"
    /\ CanWrite(w, wk[w].jid)
    /\ db' = [db EXCEPT ![wk[w].jid] =
                Flush(@, wk[w].snap, wk[w].expired, MarkDoneAssign(ResultPath(wk[w].jid)))]
    /\ \/ wk' = [wk EXCEPT ![w] = IdleWorker]
       \/ wk' = [wk EXCEPT ![w] = [@ EXCEPT
                   !.pc = "mark_error", !.code = ErrorCodeOf("OTHER"), !.expired = TRUE]]
    /\ UNCHANGED <<now, skipLocked, lock, artifacts, direct, claims>>
    /\ UNCHANGED <<call, limiter>>

\* process_one, except Exception: mark_error(db, job, code, human), then the two
\* job_log calls and return False. A log write failing here is raised out of
\* process_one: it ends loop().
MarkError(w) ==
    /\ wk[w].pc = "mark_error"
    /\ CanWrite(w, wk[w].jid)
    /\ \E n \in HumanLens(wk[w].code) :
         db' = [db EXCEPT ![wk[w].jid] =
                  Flush(@, wk[w].snap, wk[w].expired, MarkErrorAssign(wk[w].code, n))]
    /\ \/ wk' = [wk EXCEPT ![w] = IdleWorker]
       \/ /\ wk[w].mode = "loop"
          /\ wk' = [wk EXCEPT ![w] = [IdleWorker EXCEPT !.pc = "stopped"]]
    /\ UNCHANGED <<now, skipLocked, lock, artifacts, direct, claims>>
    /\ UNCHANGED <<call, limiter>>

Next ==
    \/ \E p \in PersonRefs, g \in GarmentRefs : CreateJob(p, g)
    \/ Tick
    \/ \E w \in Workers : SweepSelect(w)
    \/ \E w \in Workers : SweepCommit(w)
    \/ \E w \in Workers : ClaimSelect(w)
    \/ \E w \in Workers : ClaimCommit(w)
    \/ \E w \in Workers : LoopProcessOne(w)
    \/ \E w \in Workers, j \in JobIds : DirectProcessOne(w, j)
    \/ \E w \in Workers : MarkProcessing(w)
    \/ \E w \in Workers : LogStart(w)
    \/ \E w \in Workers : Pipeline(w)
    \/ \E w \in Workers : MarkDone(w)
    \/ \E w \in Workers : MarkError(w)

Spec == Init /\ [][Next]_vars

\* the worker processes as deployed: every process_one call is made by loop()
NextLoop ==
    \/ \E p \in PersonRefs, g \in GarmentRefs : CreateJob(p, g)
    \/ Tick
    \/ \E w \in Workers : SweepSelect(w)
    \/ \E w \in Workers : SweepCommit(w)
    \/ \E w \in Workers : ClaimSelect(w)
    \/ \E w \in Workers : ClaimCommit(w)
    \/ \E w \in Workers : LoopProcessOne(w)
    \/ \E w \in Workers : Pipeline(w)
    \/ \E w \in Workers : MarkDone(w)
    \/ \E w \in Workers : MarkError(w)

SpecLoop == Init /\ [][NextLoop]_vars

\* a worker process dies inside an iteration of loop(): nothing more of it
\* runs; the store rolls back its open transaction and releases its row lock
Crash(w) ==
    /\ wk[w].pc \notin {"idle", "stopped", "crashed"}
    /\ wk' = [wk EXCEPT ![w] = [IdleWorker EXCEPT !.pc = "crashed"]]
    /\ lock' = [j \in JobIds |-> IF lock[j] = w THEN 0 ELSE lock[j]]
    /\ UNCHANGED <<db, now, skipLocked, artifacts, direct, claims>>
    /\ UNCHANGED <<call, limiter>>

\* one statement of worker w's loop()
LoopStep(w) ==
    \/ SweepSelect(w)
    \/ SweepCommit(w)
    \/ ClaimSelect(w)
    \/ ClaimCommit(w)
    \/ LoopProcessOne(w)
    \/ Pipeline(w)
    \/ MarkDone(w)
    \/ MarkError(w)

NextCrash ==
    \/ NextLoop
    \/ \E w \in Workers : Crash(w)

\* the worker processes with crashes; a worker process that is running is
\* scheduled: its next statement is eventually executed (while True in loop())
SpecCrash ==
    Init /\ [][NextCrash]_vars /\ \A w \in Workers : WF_vars(LoopStep(w))

\* ------------------------------------------- the watchdog on any store

\* fail_stuck_jobs run, by one worker or by two at once, on a store as earlier
\* runs, the legacy workers of this repository (which set processing with a
\* null processing_started_at) or other clients of the table may have left it
SweepAttempts == {0, 1, 3}
SweepMaxAttempts == {DefaultMaxAttempts, 3}
SweepStarted == {Null, 0, 100}
SweepNows == {240, 300}

SweepRows ==
    [status : {"queued", "processing", "done", "error"},
     person : {"person_a"},
     garment : {"garment_a"},
     result : {Null},
     error_code : {NullStr},
     error_message : {Null},
     attempts : SweepAttempts,
     max_attempts : SweepMaxAttempts,
     processing_started_at : SweepStarted,
     created_at : {1}]

InitSweep ==
    /\ \E n \in 1..MaxJobs : db \in [1..n -> SweepRows]
    /\ now \in SweepNows
    /\ skipLocked = TRUE
    /\ lock = [j \in JobIds |-> 0]
    /\ wk = [w \in Workers |-> IdleWorker]
    /\ artifacts = {}
    /\ direct = 0
    /\ claims = [j \in JobIds |-> 0]
    /\ call = NoCall
    /\ limiter = NewLimiter

NextSweep ==
    \/ \E w \in Workers : SweepSelect(w)
    \/ \E w \in Workers : SweepCommit(w)

SpecSweep == InitSweep /\ [][NextSweep]_vars

\* --------------------------------------- stateless functions and handlers

\* the store and the workers are not involved in a stateless call
StoreAtRest ==
    /\ db = <<>>
    /\ now = 0
    /\ skipLocked = TRUE
    /\ lock = [j \in JobIds |-> 0]
    /\ wk = [w \in Workers |-> IdleWorker]
    /\ artifacts = {}
    /\ direct = 0
    /\ claims = [j \in JobIds |-> 0]
    /\ limiter = NewLimiter

StoreUntouched ==
    UNCHANGED <<db, now, skipLocked, lock, wk, artifacts, direct, claims, limiter>>

\* the result slot of a call that has not returned yet
Pending == "pending"

\* a call of fn with argument arg that has not returned yet
NewCall(fn, arg) == [fn |-> fn, arg |-> arg, out |-> Pending, returned |-> FALSE]

\* the call returns out
Return(out) == call' = [call EXCEPT !.out = out, !.returned = TRUE]

\* np.clip(x, lo, hi)
Clip(x, lo, hi) == IF x < lo THEN lo ELSE IF x > hi THEN hi ELSE x

\* ------------------------------- image_utils.py: validate_garment_photo

\* the measurements validate_garment_photo takes of a garment photo, sampled on
\* both sides of each threshold: min(h, w) in pixels, Laplacian variance, mean
\* grey level, white-background ratio and edge density in thousandths
MinSides == {479, 480, 1080}
Sharpnesses == {0, 69, 70}
Brightnesses == {69, 70, 255}
WhiteRatios == {0, 249, 250}
EdgeDensities == {0, 180, 181}

GarmentSignals ==
    [min_side : MinSides, sharpness : Sharpnesses, brightness : Brightnesses,
     white_ratio : WhiteRatios, edge_density : EdgeDensities]

\* validate_garment_photo: the reasons appended, one test per signal
Reasons(sig) ==
    (IF sig.min_side < 480 THEN {"LOW_RESOLUTION"} ELSE {})
    \cup (IF sig.sharpness < 70 THEN {"TOO_BLURRY"} ELSE {})
    \cup (IF sig.brightness < 70 THEN {"LOW_LIGHT"} ELSE {})
    \cup (IF sig.white_ratio < 250 THEN {"BUSY_BACKGROUND"} ELSE {})
    \cup (IF sig.edge_density > 180 THEN {"TOO_MUCH_TEXTURE"} ELSE {})

\* validate_garment_photo: the list reasons, in the order of the appends
ReasonList(sig) ==
    (IF sig.min_side < 480 THEN <<"LOW_RESOLUTION">> ELSE <<>>)
    \o (IF sig.sharpness < 70 THEN <<"TOO_BLURRY">> ELSE <<>>)
    \o (IF sig.brightness < 70 THEN <<"LOW_LIGHT">> ELSE <<>>)
    \o (IF sig.white_ratio < 250 THEN <<"BUSY_BACKGROUND">> ELSE <<>>)
    \o (IF sig.edge_density > 180 THEN <<"TOO_MUCH_TEXTURE">> ELSE <<>>)

\* the tip appended together with a reason
TipOf(reason) == <<"tip", reason>>

\* a report that returns every tip
AllTips == 5

\* tips[:4]
MaxTips == 4

\* validate_garment_photo: the list tips as returned, one tip per reason in the
\* order of the appends, cut to the first MaxTips
TipList(sig) ==
    LET reasons == ReasonList(sig)
    IN  [i \in 1..Min(MaxTips, Len(reasons)) |-> TipOf(reasons[i])]

\* a scoring that takes the same 0.18 off for every reason
FlatDeduction(reason) == 18

\* validate_garment_photo: what each reason takes off the score, in hundredths
Deduction(reason) ==
    CASE reason = "LOW_RESOLUTION" -> 18
      [] reason = "TOO_BLURRY" -> 25
      [] reason = "LOW_LIGHT" -> 18
      [] reason = "BUSY_BACKGROUND" -> 22
      [] reason = "TOO_MUCH_TEXTURE" -> 12

\* one "if <reason> in reasons: score -= <deduction>" statement
Deduct(score, reasons, reason) ==
    IF reason \in reasons THEN score - Deduction(reason) ELSE score

\* validate_garment_photo: score, in hundredths (round(score, 3) is exact on
\* every value the subtractions give), and ok
ValidateGarmentPhoto(sig) ==
    LET reasons == Reasons(sig)
        s1 == Deduct(100, reasons, "LOW_RESOLUTION")
        s2 == Deduct(s1, reasons, "TOO_BLURRY")
        s3 == Deduct(s2, reasons, "LOW_LIGHT")
        s4 == Deduct(s3, reasons, "BUSY_BACKGROUND")
        s5 == Deduct(s4, reasons, "TOO_MUCH_TEXTURE")
        score == Clip(s5, 0, 100)
    IN [ok |-> score >= 55, score |-> score, reasons |-> reasons,
        reason_list |-> ReasonList(sig), tips |-> TipList(sig)]

InitQuality ==
    /\ StoreAtRest
    /\ \E sig \in GarmentSignals :
         call = NewCall("validate_garment_photo", sig)

Validate ==
    /\ call.fn = "validate_garment_photo"
    /\ ~call.returned
    /\ Return(ValidateGarmentPhoto(call.arg))
    /\ StoreUntouched

NextQuality == Validate

SpecQuality == InitQuality /\ [][NextQuality]_vars

\* --------------------------------- api/routes/tryon.py: get_tryon_result

\* the rows a result query can find, and whether the file the row's result
\* reference names exists
ResultRows ==
    [status : {"queued", "processing", "done", "error"},
     person : {"person_a"},
     garment : {"garment_a"},
     result : {Null, ResultPath(1)},
     error_code : {NullStr, "POSE_NOT_FOUND"},
     error_message : {Null, PoseMessageLen},
     attempts : {1},
     max_attempts : {DefaultMaxAttempts},
     processing_started_at : {0},
     created_at : {1}]

ResultQueries == [found : BOOLEAN, row : ResultRows, file_exists : BOOLEAN]

\* an HTTPException(status_code, detail={"error_code": ..., ...}) or the
\* FileResponse of the result image
HttpError(status_code, error_code, job_error_code, job_error_message) ==
    [status_code |-> status_code, error_code |-> error_code,
     job_error_code |-> job_error_code, job_error_message |-> job_error_message,
     image |-> Null]

FileResponse(path) ==
    [status_code |-> 200, error_code |-> NullStr,
     job_error_code |-> NullStr, job_error_message |-> Null, image |-> path]

\* a result query that trusts the result reference without looking for the file
GetTryonResultUnchecked(q) ==
    IF ~q.found THEN HttpError(404, "JOB_NOT_FOUND", NullStr, Null)
    ELSE IF q.row.status \in {"queued", "processing"}
    THEN HttpError(409, "JOB_NOT_READY", NullStr, Null)
    ELSE IF q.row.status = "error"
    THEN HttpError(409, "JOB_ERROR", q.row.error_code, q.row.error_message)
    ELSE IF q.row.result = Null
    THEN HttpError(404, "RESULT_NOT_FOUND", NullStr, Null)
    ELSE FileResponse(q.row.result)

\* get_tryon_result
GetTryonResult(q) ==
    IF ~q.found THEN HttpError(404, "JOB_NOT_FOUND", NullStr, Null)
    ELSE IF q.row.status \in {"queued", "processing"}
    THEN HttpError(409, "JOB_NOT_READY", NullStr, Null)
    ELSE IF q.row.status = "error"
    THEN HttpError(409, "JOB_ERROR", q.row.error_code, q.row.error_message)
    ELSE IF q.row.result = Null \/ ~q.file_exists
    THEN HttpError(404, "RESULT_NOT_FOUND", NullStr, Null)
    ELSE FileResponse(q.row.result)

InitResult ==
    /\ StoreAtRest
    /\ \E q \in ResultQueries : call = NewCall("get_tryon_result", q)

GetResult ==
    /\ call.fn = "get_tryon_result"
    /\ ~call.returned
    /\ Return(GetTryonResult(call.arg))
    /\ StoreUntouched

NextResult == GetResult

SpecResult == InitResult /\ [][NextResult]_vars

\* ------------------------------------- api/routes/tryon.py: create_tryon

\* MAX_UPLOAD_BYTES = 10 * 1024 * 1024
MaxUploadBytes == 10485760

\* the declared content types of an upload (NullStr: none declared) and the
\* ones that start with "image/"
ContentTypes == {NullStr, "image/png", "text/plain", "imagexpng"}
ImageContentTypes == {"image/png"}

\* the sizes of an upload's payload, in bytes
UploadSizes == {0, 1, MaxUploadBytes, MaxUploadBytes + 1}

Uploads == [content_type : ContentTypes, size : UploadSizes]

\* (content_type or "").startswith("image/")
DeclaresImage(upload) == upload.content_type \in ImageContentTypes

\* an upload reader that lets the empty payload through
ReadUploadAllowEmpty(upload, max_bytes) ==
    LET read == Min(upload.size, max_bytes + 1) IN
    IF read > max_bytes THEN [ok |-> FALSE, status_code |-> 413, error_code |-> "FILE_TOO_LARGE"]
    ELSE [ok |-> TRUE, status_code |-> 200, error_code |-> NullStr]

\* _read_upload_or_413: upload.file.read(max_bytes + 1), then the two tests
ReadUploadOr413(upload, max_bytes) ==
    LET read == Min(upload.size, max_bytes + 1) IN
    IF read > max_bytes THEN [ok |-> FALSE, status_code |-> 413, error_code |-> "FILE_TOO_LARGE"]
    ELSE IF read = 0 THEN [ok |-> FALSE, status_code |-> 400, error_code |-> "EMPTY_FILE"]
    ELSE [ok |-> TRUE, status_code |-> 200, error_code |-> NullStr]

\* create_tryon up to the call of create_job: the first test that fails raises
UploadVerdict(person, garment) ==
    IF ~DeclaresImage(person)
    THEN [ok |-> FALSE, status_code |-> 415, error_code |-> "INVALID_PERSON_FILE"]
    ELSE IF ~DeclaresImage(garment)
    THEN [ok |-> FALSE, status_code |-> 415, error_code |-> "INVALID_GARMENT_FILE"]
    ELSE IF ~ReadUploadOr413(person, MaxUploadBytes).ok
    THEN ReadUploadOr413(person, MaxUploadBytes)
    ELSE ReadUploadOr413(garment, MaxUploadBytes)

\* create_tryon: the request is answered with the error, or the two files are
\* written and create_job adds the job
CreateTryon(person, garment) ==
    /\ Len(db) < MaxJobs
    /\ LET verdict == UploadVerdict(person, garment) IN
        /\ db' = IF verdict.ok
                 THEN Append(db, NewRow("person_a", "garment_a", Len(db) + 1))
                 ELSE db
        /\ call' = [fn |-> "create_tryon",
                    arg |-> [person |-> person, garment |-> garment],
                    out |-> verdict, returned |-> TRUE]
    /\ UNCHANGED <<now, skipLocked, lock, wk, artifacts, direct, claims, limiter>>

NextUpload == \E person \in Uploads, garment \in Uploads : CreateTryon(person, garment)

SpecUpload == Init /\ [][NextUpload]_vars

\* --------------------------------- image_utils.py: overlay_bgra_on_bgr

\* image sizes, placements and alpha levels of the compositor's inputs; a pixel
\* is one colour channel, 0..255 (the three channels are treated alike)
BaseSizes == {1, 2, 3}
FgSizes == {1, 2}
Offsets == -2..3
Alphas == {0, 128, 255}

\* the pixel values of the images: every position of the background and of the
\* foreground has a value of its own
BasePixel(r, c) == 10 * r + c
FgPixel(r, c) == 200 + 10 * r + c

Positions(h, w) == (0..(h - 1)) \X (0..(w - 1))

OverlayInputs ==
    [bh : BaseSizes, bw : BaseSizes, fh : FgSizes, fw : FgSizes,
     x : Offsets, y : Offsets, alpha : Alphas]

\* a blend with the weights of foreground and background exchanged
BlendSwapped(fg, bg, a) == Clip((fg * (255 - a) + bg * a) \div 255, 0, 255)

\* comp = fg * alpha + bg * (1 - alpha) with alpha = a / 255 in float32, clipped
\* to 0..255 and truncated by astype(uint8). float32 is exact for a = 0 and
\* a = 255; for the other inputs used here the blend is not within float32
\* error of an integer, so the truncation is that of the exact value
Blend(fg, bg, a) == Clip((fg * a + bg * (255 - a)) \div 255, 0, 255)

\* backend/image_utils.py, overlay_bgra_on_bgr: roi * (1 - alpha) + ov * alpha in
\* float32, astype(uint8) with no clip
BlendLegacy(fg, bg, a) == ((bg * (255 - a) + fg * a) \div 255) % 256

\* the region written and the pixels returned, for either blend: both versions of
\* overlay_bgra_on_bgr copy the base, clamp the region [x1, x2) x [y1, y2), and
\* blend the foreground pixel at (r - y, c - x) into the base pixel at (r, c)
OverlayWith(q, legacy) ==
    LET x1 == IF q.x > 0 THEN q.x ELSE 0
        y1 == IF q.y > 0 THEN q.y ELSE 0
        x2 == Min(q.bw, q.x + q.fw)
        y2 == Min(q.bh, q.y + q.fh)
    IN [p \in Positions(q.bh, q.bw) |->
          IF x1 >= x2 \/ y1 >= y2 THEN BasePixel(p[1], p[2])
          ELSE IF p[1] >= y1 /\ p[1] < y2 /\ p[2] >= x1 /\ p[2] < x2
          THEN IF legacy
               THEN BlendLegacy(FgPixel(p[1] - q.y, p[2] - q.x),
                                BasePixel(p[1], p[2]), q.alpha)
               ELSE Blend(FgPixel(p[1] - q.y, p[2] - q.x),
                          BasePixel(p[1], p[2]), q.alpha)
          ELSE BasePixel(p[1], p[2])]

\* the caller's background image, as passed in
BaseImage(q) == [p \in Positions(q.bh, q.bw) |-> BasePixel(p[1], p[2])]

\* out = base_bgr with no copy: the writes to out are writes to the caller's image
BaseAliased(q, image) == image

\* out = base_bgr.copy(): the caller's image after the call; every write of the
\* function goes to out (roi is a view of out), none to base_bgr
BaseAfterCall(q, image) == BaseImage(q)

\* what a call leaves: the image returned and the caller's background
OverlayResult(q, legacy) ==
    LET image == OverlayWith(q, legacy)
    IN  [image |-> image, base |-> BaseAfterCall(q, image)]

\* app/ai/image_utils.py: overlay_bgra_on_bgr(base_bgr, fg_bgra, x, y)
OverlayBgraOnBgr(q) == OverlayResult(q, FALSE)

\* backend/image_utils.py: overlay_bgra_on_bgr(base_bgr, overlay_bgra, x, y)
OverlayBgraOnBgrLegacy(q) == OverlayResult(q, TRUE)

OverlayFns == {"overlay_bgra_on_bgr", "overlay_bgra_on_bgr (backend/image_utils.py)"}

InitOverlay ==
    /\ StoreAtRest
    /\ \E q \in OverlayInputs, fn \in OverlayFns : call = NewCall(fn, q)

Overlay ==
    /\ call.fn = "overlay_bgra_on_bgr"
    /\ ~call.returned
    /\ Return(OverlayBgraOnBgr(call.arg))
    /\ StoreUntouched

OverlayLegacy ==
    /\ call.fn = "overlay_bgra_on_bgr (backend/image_utils.py)"
    /\ ~call.returned
    /\ Return(OverlayBgraOnBgrLegacy(call.arg))
    /\ StoreUntouched

NextOverlay == Overlay \/ OverlayLegacy

SpecOverlay == InitOverlay /\ [][NextOverlay]_vars

\* ------------------------------ pose.py: detect_torso_anchor_mediapipe

\* image sides in pixels, and the shoulder and hip landmarks in pixels
\* (landmark.x * w, landmark.y * h): the pose model also places landmarks
\* outside the image
ImageSides == {1, 30, 100}
LandmarkXs == {-50, 0, 10, 60, 99, 150}
LandmarkYs == {-20, 10, 120}
HipYs == {60, 130}

\* what the pose model reports: no landmarks, a shoulder of visibility below
\* 0.4, visible shoulders with a hip of visibility below 0.4, or shoulders and
\* hips all visible
Detections == {"none", "low_visibility", "low_hip_visibility", "ok"}

AnchorInputs ==
    [w : ImageSides, h : ImageSides, detect : Detections,
     lx : LandmarkXs, ly : LandmarkYs, rx : LandmarkXs, ry : LandmarkYs,
     hip_y : HipYs]

NoAnchor == [found |-> FALSE, x |-> 0, y |-> 0, w |-> 0, h |-> 0]

TorsoAnchor(x, y, w, h) == [found |-> TRUE, x |-> x, y |-> y, w |-> w, h |-> h]

Abs(a) == IF a < 0 THEN 0 - a ELSE a

Larger(a, b) == IF a > b THEN a ELSE b

\* int(n / d) of Python for d > 0: truncation toward zero
Trunc(n, d) == IF n >= 0 THEN n \div d ELSE 0 - ((0 - n) \div d)

\* app/ai/pose.py, the clamp to the image and the size test (lines 56-65)
AnchorClamped(x, y, target_w, target_h, w, h) ==
    LET cx == Larger(0, Min(w - 1, x))
        cy == Larger(0, Min(h - 1, y))
        tw == IF cx + target_w > w THEN w - cx ELSE target_w
        th == IF cy + target_h > h THEN h - cy ELSE target_h
    IN IF tw <= 20 \/ th <= 20 THEN NoAnchor ELSE TorsoAnchor(cx, cy, tw, th)

\* app/ai/pose.py: detect_torso_anchor_mediapipe(person_bgr), with
\* width_ratio 0.62 and height_ratio 0.55; the float products and quotients
\* agree with the integer ones on every input used here. It reads the two
\* shoulders only: the hips and their visibility play no part
DetectTorsoAnchor(q) ==
    IF q.detect \in {"none", "low_visibility"} THEN NoAnchor
    ELSE
    LET shoulder_w == Larger(1, Abs(q.rx - q.lx))
        cx == (q.lx + q.rx) \div 2
        cy == (q.ly + q.ry) \div 2
        target_w == (100 * shoulder_w) \div 62
        target_h == (55 * target_w) \div 100
        x == cx - (target_w \div 2)
        y == cy - ((25 * target_h) \div 100)
    IN AnchorClamped(x, y, target_w, target_h, q.w, q.h)

\* backend/image_utils.py: detect_torso_anchor_mediapipe(person_bgr), with
\* width_scale 1.35, height_ratio 1.40, y_offset_ratio 0.18; it tests no
\* visibility
DetectTorsoAnchorLegacy(q) ==
    IF q.detect = "none" THEN NoAnchor
    ELSE
    LET shoulder_w == Larger(10, Abs(q.rx - q.lx))
        shoulder_top_y == Min(q.ly, q.ry)
        target_w == (135 * shoulder_w) \div 100
        target_h0 == (140 * target_w) \div 100
        x0 == Trunc(q.lx + q.rx - target_w, 2)
        y0 == Trunc(100 * shoulder_top_y - 18 * shoulder_w, 100)
        min_h == Larger(target_h0, Trunc(105 * (q.hip_y - y0), 100))
        target_h1 == Larger(target_h0, min_h)
        x1 == Larger(0, Min(x0, q.w - 2))
        y1 == Larger(0, Min(y0, q.h - 2))
        x2 == IF x1 + target_w > q.w THEN Larger(0, q.w - target_w) ELSE x1
        target_h2 == IF y1 + target_h1 > q.h THEN Larger(10, q.h - y1) ELSE target_h1
    IN TorsoAnchor(x2, y1, Larger(10, target_w), Larger(10, target_h2))

AnchorFns ==
    {"detect_torso_anchor_mediapipe",
     "detect_torso_anchor_mediapipe (backend/image_utils.py)"}

InitAnchor ==
    /\ StoreAtRest
    /\ \E q \in AnchorInputs, fn \in AnchorFns : call = NewCall(fn, q)

Locate ==
    /\ call.fn = "detect_torso_anchor_mediapipe"
    /\ ~call.returned
    /\ Return(DetectTorsoAnchor(call.arg))
    /\ StoreUntouched

LocateLegacy ==
    /\ call.fn = "detect_torso_anchor_mediapipe (backend/image_utils.py)"
    /\ ~call.returned
    /\ Return(DetectTorsoAnchorLegacy(call.arg))
    /\ StoreUntouched

NextAnchor == Locate \/ LocateLegacy

SpecAnchor == InitAnchor /\ [][NextAnchor]_vars

\* ------------------------------------------------------------------ types

Statuses == {"queued", "processing", "done", "error"}
ErrorCodes == {"POSE_NOT_FOUND", "WRITE_FAILED", "WORKER_ERROR", "WORKER_TIMEOUT"}

TypeOK ==
    /\ Len(db) <= MaxJobs
    /\ \A j \in Ids :
        /\ db[j].status \in Statuses
        /\ db[j].attempts \in Nat
        /\ db[j].error_code \in ErrorCodes \cup {NullStr}
        /\ db[j].result \in {Null, ResultPath(j)}
        /\ db[j].processing_started_at \in {Null} \cup 0..MaxNow
    /\ now \in 0..MaxNow
    /\ \A j \in JobIds : lock[j] \in Workers \cup {0}
    /\ artifacts \subseteq Ids

\* the steps in which a worker's call returns or commits
ClaimReturns(w) == wk[w].pc = "claim_commit" /\ wk'[w].pc = "load"
ClaimReturnsNone(w) == wk[w].pc = "claim" /\ wk'[w].pc = "idle"
SweepCommits(w) == wk[w].pc = "sweep_commit" /\ wk'[w].pc = "claim"
SweepFindsNone(w) == wk[w].pc = "idle" /\ wk'[w].pc = "claim"

\* worker w is running process_one for job j on behalf of loop()
HoldsClaim(w, j) ==
    /\ wk[w].mode = "loop"
    /\ wk[w].jid = j
    /\ wk[w].pc \in {"load", "pipeline", "mark_done", "mark_error"}

\* ----------------------------------------------------------------- claims

AllowedTransitions ==
    {<<"queued", "processing">>, <<"processing", "done">>,
     <<"processing", "error">>, <<"processing", "queued">>}

\* C2: every change of a job's status is queued->processing, processing->done,
\* processing->error or processing->queued; a job in done or error never
\* changes status again.
C2_OnlyAllowedTransitions ==
    [][\A j \in Ids :
         db'[j].status # db[j].status =>
            <<db[j].status, db'[j].status>> \in AllowedTransitions]_vars

\* C3: every queued->processing transition raises attempts by exactly 1, and
\* attempts changes in no other step: process_one run for a job that was
\* claimed (already processing) does not count a second attempt.
C3_AttemptsOncePerTransition ==
    [][\A j \in Ids :
         /\ (db[j].status = "queued" /\ db'[j].status = "processing")
               => db'[j].attempts = db[j].attempts + 1
         /\ db'[j].attempts # db[j].attempts
               => db[j].status = "queued" /\ db'[j].status = "processing"]_vars

\* a worker of loop() runs the pipeline for the job it claimed, counted once
C3_Witness ==
    \E w \in Workers :
        /\ wk[w].pc = "pipeline"
        /\ HoldsClaim(w, wk[w].jid)
        /\ claims[wk[w].jid] = 1
        /\ db[wk[w].jid].status = "processing"
        /\ db[wk[w].jid].attempts = 1

\* C4: attempts never exceeds max_attempts, for every job in every state.
C4_AttemptsWithinMax ==
    \A j \in Ids : db[j].attempts <= db[j].max_attempts

\* a job that was claimed, timed out by the watchdog and is at rest in error
C4_Witness ==
    \E j \in Ids :
        /\ db[j].status = "error"
        /\ db[j].error_code = "WORKER_TIMEOUT"
        /\ db[j].attempts = 1
        /\ claims[j] = 1
        /\ \A w \in Workers : wk[w].jid # j

\* the row is processing and its processing_started_at is older than now - timeout
OlderThanTimeout(row) ==
    /\ row.status = "processing"
    /\ row.processing_started_at # Null
    /\ now - row.processing_started_at > TimeoutSeconds

\* C5: a sweep that finds a processing job older than the timeout with
\* attempts < max_attempts sets it back to queued with processing_started_at
\* null.
C5_StuckWithAttemptsLeftIsRequeued ==
    [][\A w \in Workers : SweepCommits(w) =>
         \A j \in Ids :
            (OlderThanTimeout(db[j]) /\ db[j].attempts < db[j].max_attempts)
               => db'[j].status = "queued" /\ db'[j].processing_started_at = Null]_vars

\* C6: a sweep that finds a processing job older than the timeout with
\* attempts >= max_attempts sets it to error with error_code WORKER_TIMEOUT.
C6_StuckExhaustedIsFailed ==
    [][\A w \in Workers : SweepCommits(w) =>
         \A j \in Ids :
            (OlderThanTimeout(db[j]) /\ db[j].attempts >= db[j].max_attempts)
               => db'[j].status = "error" /\ db'[j].error_code = "WORKER_TIMEOUT"]_vars

\* a sweep has failed a job that had attempts = max_attempts = 3
C6_Witness ==
    \E w \in Workers, j \in Ids :
        /\ wk[w].pc = "claim"
        /\ db[j].status = "error"
        /\ db[j].error_code = "WORKER_TIMEOUT"
        /\ db[j].attempts = 3
        /\ db[j].max_attempts = 3

\* C7: a sweep changes no field of a job that is not processing, or whose
\* processing_started_at is null or not older than now - timeout, the job taken
\* as it is in the store when the sweep writes.
C7_SweepLeavesOthersUnchanged ==
    [][\A w \in Workers : (SweepCommits(w) \/ SweepFindsNone(w)) =>
         \A j \in Ids : ~OlderThanTimeout(db[j]) => db'[j] = db[j]]_vars

\* C8: the result reference of a job is non-null iff its status is done.
C8_ResultIffDone ==
    \A j \in Ids : (db[j].result # Null) <=> (db[j].status = "done")

\* C9: error_code and error_message of a job are non-null iff its status is
\* error.
C9_ErrorFieldsIffError ==
    \A j \in Ids :
        /\ db[j].status = "error"
              => db[j].error_code # NullStr /\ db[j].error_message # Null
        /\ db[j].status # "error"
              => db[j].error_code = NullStr /\ db[j].error_message = Null

\* what a successful claim_next_job does to the job it returns, and to no other
ClaimEffect(w) ==
    LET j == wk[w].jid IN
    /\ db[j].status = "queued"
    /\ db' = [db EXCEPT ![j] = [@ EXCEPT !.status = "processing",
                                         !.processing_started_at = now,
                                         !.attempts = @ + 1,
                                         !.error_code = NullStr,
                                         !.error_message = Null]]

C11_OldestQueuedFirst ==
    [][\A w \in Workers :
         /\ (wk[w].pc = "claim" /\ wk'[w].pc = "claim_commit"
               /\ \A k \in JobIds : lock[k] = 0)
              => /\ db[wk'[w].jid].status = "queued"
                 /\ \A k \in Ids : db[k].status = "queued"
                       => db[wk'[w].jid].created_at <= db[k].created_at
         /\ (ClaimReturns(w)
               /\ \A v \in Workers \ {w} : wk[v].pc # "claim_commit")
              => \A k \in Ids : db'[k].status = "queued"
                    => db[wk[w].jid].created_at < db[k].created_at]_vars

\* a worker has selected the older of two queued jobs while the other worker is
\* idle and no row is locked by another claimer
C11_Witness ==
    \E w \in Workers :
        /\ wk[w].pc = "claim_commit"
        /\ wk[w].jid = 1
        /\ Len(db) = 2
        /\ db[1].status = "queued"
        /\ db[2].status = "queued"
        /\ \A v \in Workers \ {w} : wk[v].pc = "idle"

\* worker w is in the image pipeline of process_one for job j: from reading the
\* images to writing the result file
RunsPipeline(w, j) == wk[w].jid = j /\ wk[w].pc = "pipeline"

C13_FallbackDoneOnce ==
    [][~skipLocked =>
         \A j \in Ids :
            (db[j].status # "done" /\ db'[j].status = "done")
                => db[j].result = Null]_vars

\* job j is in processing and no worker is working on it: the worker that
\* claimed it has crashed
Orphaned(j) ==
    /\ db[j].status = "processing"
    /\ \A w \in Workers : wk[w].jid # j

\* job j is orphaned and its processing_started_at is older than now - timeout
OrphanedPastTimeout(j) == j \in Ids /\ Orphaned(j) /\ OlderThanTimeout(db[j])

\* job j exists and is not in processing
NotProcessing(j) == j \in Ids /\ db[j].status # "processing"

C15_CreateJobContract ==
    [][Len(db') # Len(db) =>
         /\ Len(db') = Len(db) + 1
         /\ Len(db) + 1 \notin Ids
         /\ \A j \in Ids : db'[j] = db[j]
         /\ \E p \in PersonRefs, g \in GarmentRefs :
              LET job == db'[Len(db) + 1] IN
              /\ job.status = "queued"
              /\ job.attempts = 0
              /\ job.person = p
              /\ job.garment = g
              /\ job.result = Null
              /\ job.error_code = NullStr
              /\ job.error_message = Null
              /\ job.processing_started_at = Null]_vars

\* a job has been created beside a job that is already done
C15_Witness ==
    /\ Len(db) = 2
    /\ db[1].status = "done"
    /\ db[2].status = "queued"
    /\ db[2].attempts = 0
    /\ db[2].person \in PersonRefs
    /\ claims[2] = 0

\* C16: every iteration of loop() starts with the sweep, the sweep is complete
\* before the iteration's claim starts and is not run again before the claim
\* has returned; the job a worker's claim selects is not one of the jobs that
\* worker's sweep failed in the same iteration.
C16_SweepOnceBeforeClaim ==
    [][\A w \in Workers :
         /\ (wk[w].pc = "idle" /\ wk'[w].pc # "idle")
              => wk'[w].pc \in {"sweep_commit", "claim"}
         /\ (wk[w].pc # "claim" /\ wk'[w].pc = "claim")
              => SweepCommits(w) \/ SweepFindsNone(w)
         /\ (wk[w].pc # "claim_commit" /\ wk'[w].pc = "claim_commit")
              => wk[w].pc = "claim"
         /\ (wk[w].pc # "sweep_commit" /\ wk'[w].pc = "sweep_commit")
              => wk[w].pc = "idle"
         /\ (wk[w].pc = "claim" /\ wk'[w].pc = "claim_commit")
              => \A e \in wk[w].stuck :
                    /\ e[1] # wk'[w].jid
                    /\ db[e[1]].status # "queued"]_vars

\* a worker that has just failed a stuck job in its sweep has selected another
\* job in the claim of the same iteration
C16_Witness ==
    \E w \in Workers :
        /\ wk[w].pc = "claim_commit"
        /\ wk[w].stuck # {}
        /\ \A e \in wk[w].stuck :
              /\ e[1] # wk[w].jid
              /\ db[e[1]].status = "error"
              /\ db[e[1]].error_code = "WORKER_TIMEOUT"

\* the stable error codes of a failed pipeline run
StableCodes ==
    {"POSE_NOT_FOUND", "WRITE_FAILED", "GARMENT_IMAGE_LOW_QUALITY", "WORKER_ERROR"}

\* C17: a run of process_one that fails (in the pipeline, or in a log write
\* before or after it) goes to the handler with one of the stable codes, and the
\* handler's commit leaves the job in status error with that code and a message;
\* a pipeline that succeeds goes to mark_done, whose commit leaves the job in
\* status done with the result reference set.
C17_OutcomeIsPersisted ==
    [][\A w \in Workers :
         LET j == wk[w].jid IN
         /\ (wk[w].pc = "pipeline" /\ wk'[w].pc # "pipeline")
              => \/ wk'[w].pc = "mark_done" /\ j \in artifacts'
                 \/ wk'[w].pc = "mark_error"
         /\ (wk[w].pc # "mark_error" /\ wk'[w].pc = "mark_error")
              => wk'[w].code \in StableCodes
         /\ (wk[w].pc = "mark_error" /\ wk'[w].pc # "mark_error")
              => /\ db'[j].status = "error"
                 /\ db'[j].error_code = wk[w].code
                 /\ db'[j].error_code \in StableCodes
                 /\ db'[j].error_message # Null
         /\ (wk[w].pc = "mark_done" /\ wk'[w].pc # "mark_done")
              => /\ db'[j].status = "done"
                 /\ db'[j].result = ResultPath(j)]_vars

\* the pipeline run of worker w ends at the anchor locator returning null
PoseNotFoundStep(w) ==
    /\ wk[w].pc = "pipeline"
    /\ wk'[w].pc = "mark_error"
    /\ wk'[w].code = "POSE_NOT_FOUND"

\* the handler of worker w commits mark_error for a missing pose
PoseNotFoundCommit(w) ==
    /\ wk[w].pc = "mark_error"
    /\ wk[w].code = "POSE_NOT_FOUND"
    /\ wk'[w].pc # "mark_error"

\* C18: when the anchor locator returns null the run stops there (no
\* segmentation, compositing or write of the artifact happens), and the commit of
\* the handler leaves the job in status error with error_code POSE_NOT_FOUND and
\* a null result reference.
C18_PoseNotFoundEndsJob ==
    [][\A w \in Workers :
         LET j == wk[w].jid IN
         /\ PoseNotFoundStep(w)
              => /\ wk'[w].stages = StageIndex("anchor")
                 /\ wk'[w].stages < StageIndex("cutout")
                 /\ artifacts' = artifacts
         /\ PoseNotFoundCommit(w)
              => /\ db'[j].status = "error"
                 /\ db'[j].error_code = "POSE_NOT_FOUND"
                 /\ db'[j].result = Null]_vars

\* worker w starts a run of the image pipeline
StartsPipeline(w) == wk[w].pc # "pipeline" /\ wk'[w].pc = "pipeline"

\* worker w's call of claim_next_job returns a job to loop()
StartsProcessOne(w) == wk[w].pc # "load" /\ wk'[w].pc = "load"

InProcessOne(w) ==
    wk[w].mode = "loop" /\ wk[w].pc \in {"load", "pipeline", "mark_done", "mark_error"}

\* C20: whatever fails inside process_one for a claimed job (in the pipeline, in
\* recording the outcome or in writing the job log), the call returns to loop(),
\* which goes on to its next iteration, and the job is left in done or error:
\* the loop never ends on an exception.
C20_NoFailureEscapesLoop ==
    [][\A w \in Workers :
         (InProcessOne(w) /\ ~InProcessOne(w)')
            => /\ wk'[w].pc = "idle"
               /\ db'[wk[w].jid].status \in {"done", "error"}]_vars

\* C21: the result file of a job is written before the job's status becomes
\* done and is there whenever the status is done, and the result reference of a
\* done job is the path derived from its id.
C21_DoneHasArtifact ==
    /\ [](\A j \in Ids :
            db[j].status = "done" => j \in artifacts /\ db[j].result = ResultPath(j))
    /\ [][\A j \in Ids :
            (db[j].status # "done" /\ db'[j].status = "done") => j \in artifacts]_vars

\* the deductions the quality score is specified with, summed over a set of
\* failed signals, in hundredths
RECURSIVE SpecifiedDeductions(_)
SpecifiedDeductions(failed) ==
    IF failed = {} THEN 0
    ELSE LET r == CHOOSE x \in failed : TRUE
             d == CASE r = "LOW_RESOLUTION" -> 18
                    [] r = "TOO_BLURRY" -> 25
                    [] r = "LOW_LIGHT" -> 18
                    [] r = "BUSY_BACKGROUND" -> 22
                    [] r = "TOO_MUCH_TEXTURE" -> 12
         IN d + SpecifiedDeductions(failed \ {r})

\* the signals of a photo that fail, by the thresholds of the quality gate
FailedSignals(sig) ==
    {r \in {"LOW_RESOLUTION", "TOO_BLURRY", "LOW_LIGHT", "BUSY_BACKGROUND",
            "TOO_MUCH_TEXTURE"} :
        CASE r = "LOW_RESOLUTION" -> sig.min_side < 480
          [] r = "TOO_BLURRY" -> sig.sharpness < 70
          [] r = "LOW_LIGHT" -> sig.brightness < 70
          [] r = "BUSY_BACKGROUND" -> sig.white_ratio < 250
          [] r = "TOO_MUCH_TEXTURE" -> sig.edge_density > 180}

Returned(fn) == call.fn = fn /\ call.returned

\* C22: validate_garment_photo reports the failed signals, the score 1.00 minus
\* the sum of their deductions and not below 0, and ok exactly when the score is
\* at least 0.55; a photo that fails more signals never scores higher.
C22_QualityScore ==
    Returned("validate_garment_photo") =>
        LET failed == FailedSignals(call.arg) IN
        /\ call.out.reasons = failed
        /\ call.out.score = (IF SpecifiedDeductions(failed) > 100 THEN 0
                              ELSE 100 - SpecifiedDeductions(failed))
        /\ call.out.ok <=> (call.out.score >= 55)
        /\ \A sig \in GarmentSignals :
              failed \subseteq FailedSignals(sig)
                 => ValidateGarmentPhoto(sig).score <= call.out.score

\* a photo that fails three signals has been scored below the threshold
C22_Witness ==
    /\ Returned("validate_garment_photo")
    /\ call.out.reasons = {"TOO_BLURRY", "LOW_LIGHT", "TOO_MUCH_TEXTURE"}
    /\ call.out.score = 45
    /\ ~call.out.ok

\* C23: the result query of an existing job answers by the job's status: a
\* not-ready error for queued and processing, an error carrying the job's error
\* code and message for error, an error of its own kind for done without a
\* result reference or without the file, and the image for done with the file
\* and in no other case.
C23_ResultQueryByStatus ==
    (Returned("get_tryon_result") /\ call.arg.found) =>
        LET row == call.arg.row
            out == call.out
            ready == row.status = "done" /\ row.result # Null /\ call.arg.file_exists
        IN
        /\ row.status \in {"queued", "processing"}
              => out.status_code = 409 /\ out.error_code = "JOB_NOT_READY"
        /\ row.status = "error"
              => /\ out.status_code = 409 /\ out.error_code = "JOB_ERROR"
                 /\ out.job_error_code = row.error_code
                 /\ out.job_error_message = row.error_message
        /\ (row.status = "done" /\ ~ready)
              => /\ out.status_code = 404 /\ out.error_code = "RESULT_NOT_FOUND"
                 /\ out.error_code \notin {"JOB_NOT_READY", "JOB_ERROR", "JOB_NOT_FOUND"}
        /\ (out.image # Null) <=> ready
        /\ ready => out.status_code = 200 /\ out.image = row.result

\* a done job whose result reference names a file that is not there has been
\* answered with the not-found error
C23_Witness ==
    /\ Returned("get_tryon_result")
    /\ call.arg.found
    /\ call.arg.row.status = "done"
    /\ call.arg.row.result # Null
    /\ ~call.arg.file_exists
    /\ call.out.error_code = "RESULT_NOT_FOUND"

\* an upload that must be rejected: no image content type, empty, or larger
\* than the 10MB cap
BadUpload(upload) ==
    \/ upload.content_type \notin {"image/png"}
    \/ upload.size = 0
    \/ upload.size > 10 * 1024 * 1024

\* C24: a create_tryon request in which either upload has a non-image content
\* type, is empty or exceeds 10MB is answered with an error and leaves the job
\* store as it was.
C24_RejectedUploadCreatesNoJob ==
    [][(call'.fn = "create_tryon"
          /\ (BadUpload(call'.arg.person) \/ BadUpload(call'.arg.garment)))
         => /\ db' = db
            /\ ~call'.out.ok
            /\ call'.out.status_code \in {400, 413, 415}]_vars

\* a request with a good person photo and an empty garment file has been
\* rejected after a job had been created by an earlier request
C24_Witness ==
    /\ call.fn = "create_tryon"
    /\ ~BadUpload(call.arg.person)
    /\ call.arg.garment.size = 0
    /\ call.arg.garment.content_type = "image/png"
    /\ call.out.error_code = "EMPTY_FILE"
    /\ Len(db) = 1

\* the positions of the background that the foreground, placed with its top
\* left corner at (x, y), covers
OverlapRegion(q) ==
    {p \in Positions(q.bh, q.bw) :
        /\ p[1] - q.y \in 0..(q.fh - 1)
        /\ p[2] - q.x \in 0..(q.fw - 1)}

\* C25: with a foreground of alpha 0 everywhere overlay_bgra_on_bgr (either
\* version) returns the background; with alpha 255 everywhere it returns the
\* foreground's value at every position the foreground covers; and whatever the
\* alpha it leaves the positions outside the overlap as they were.
C25_OverlayAlphaExtremes ==
    (call.fn \in OverlayFns /\ call.returned) =>
        LET q == call.arg
            out == call.out.image
        IN
        /\ DOMAIN out = Positions(q.bh, q.bw)
        /\ q.alpha = 0 => \A p \in Positions(q.bh, q.bw) : out[p] = BasePixel(p[1], p[2])
        /\ q.alpha = 255 =>
              \A p \in OverlapRegion(q) : out[p] = FgPixel(p[1] - q.y, p[2] - q.x)
        /\ \A p \in Positions(q.bh, q.bw) \ OverlapRegion(q) :
              out[p] = BasePixel(p[1], p[2])

\* an opaque foreground placed partly outside a 3x3 background has been
\* composited: its lower right pixel is at the background's top left corner
C25_Witness ==
    /\ Returned("overlay_bgra_on_bgr")
    /\ call.arg.alpha = 255
    /\ call.arg.bh = 3 /\ call.arg.bw = 3
    /\ call.arg.fh = 2 /\ call.arg.fw = 2
    /\ call.arg.x = -1 /\ call.arg.y = -1
    /\ call.out.image[<<0, 0>>] = FgPixel(1, 1)
    /\ call.out.image[<<1, 1>>] = BasePixel(1, 1)

\* the bounds invariant of an anchor box in an image of w by h pixels
InBounds(box, w, h) ==
    /\ box.w > 0 /\ box.h > 0
    /\ box.x >= 0 /\ box.y >= 0
    /\ box.x + box.w <= w
    /\ box.y + box.h <= h

\* C26: whatever the image size and the landmarks, the anchor locator (either
\* version) returns null or a box with w > 0, h > 0, x >= 0, y >= 0,
\* x + w <= image width and y + h <= image height.
C26_AnchorInBounds ==
    (call.fn \in AnchorFns /\ call.returned /\ call.out.found)
        => InBounds(call.out, call.arg.w, call.arg.h)

\* the same for the locator the worker loop calls, app/ai/pose.py
C26_LiveAnchorInBounds ==
    (Returned("detect_torso_anchor_mediapipe") /\ call.out.found)
        => InBounds(call.out, call.arg.w, call.arg.h)

\* the queued rows a claimer may take: those no other claimer has locked
Unlocked(w) == {j \in Ids : db[j].status = "queued" /\ lock[j] \in {0, w}}

\* C27: a worker at the SELECT of claim_next_job can always take its step (it
\* never waits for a row lock); the row it selects is queued, locked by no
\* other claimer, and the oldest such row even when older queued rows are
\* locked; and it returns None only when every queued row is locked by
\* another claimer or no queued row exists.
C27_ClaimSkipsLockedRows ==
    /\ [](\A w \in Workers : wk[w].pc = "claim" => ENABLED ClaimSelect(w))
    /\ [][\A w \in Workers :
            /\ (wk[w].pc = "claim" /\ wk'[w].pc = "claim_commit")
                 => /\ wk'[w].jid \in Unlocked(w)
                    /\ \A k \in Unlocked(w) :
                          db[wk'[w].jid].created_at <= db[k].created_at
            /\ ClaimReturnsNone(w) => Unlocked(w) = {}]_vars

\* a worker has selected the younger queued job while the older queued job is
\* locked by the other worker's claim
C27_Witness ==
    \E w \in Workers, v \in Workers :
        /\ w # v
        /\ wk[w].pc = "claim_commit" /\ wk[v].pc = "claim_commit"
        /\ wk[w].jid # wk[v].jid
        /\ lock[wk[v].jid] = v /\ lock[wk[w].jid] = w
        /\ db[wk[v].jid].status = "queued" /\ db[wk[w].jid].status = "queued"
        /\ db[wk[v].jid].created_at < db[wk[w].jid].created_at

\* the positions of a worker inside process_one
ProcessOnePcs == {"load", "mark_processing", "log_start", "pipeline",
                  "mark_done", "mark_error"}

\* C28: a worker inside process_one (reading the images, locating the anchor,
\* cutting out, compositing, writing) holds no row lock: every row lock is held
\* by a worker between the SELECT and the commit of claim_next_job, so the
\* claim was committed before the pipeline started.
C28_NoLockWhilePipelineRuns ==
    /\ \A w \in Workers : wk[w].pc \in ProcessOnePcs
          => \A j \in JobIds : lock[j] # w
    /\ \A j \in JobIds : lock[j] # 0 => wk[lock[j]].pc = "claim_commit"

\* on a store with row locks a worker runs the pipeline of the job it claimed
\* while the other worker holds the lock of the row it has just selected
C28_Witness ==
    \E w \in Workers, v \in Workers :
        /\ skipLocked
        /\ wk[w].pc = "pipeline" /\ wk[w].mode = "loop"
        /\ claims[wk[w].jid] = 1
        /\ wk[v].pc = "claim_commit" /\ lock[wk[v].jid] = v

\* ------------------------------------------- garments of differing quality
\* the garment photos uploaded: the one of the other specifications and one
\* that is small, blurred, dark, on a busy background and heavily textured
GarmentUploads == GarmentRefs \cup {"garment_poor"}

\* validate_garment_photo: the signals measured on each garment photo
SignalsOf(garment) ==
    IF garment = "garment_poor"
    THEN [min_side |-> 479, sharpness |-> 0, brightness |-> 69,
          white_ratio |-> 0, edge_density |-> 181]
    ELSE [min_side |-> 1080, sharpness |-> 70, brightness |-> 255,
          white_ratio |-> 250, edge_density |-> 0]

\* garment_cutout: the photos the route refuses with GARMENT_IMAGE_LOW_QUALITY,
\* (not report["ok"]) and report["score"] < 0.35
FailsQualityGate(garment) ==
    LET report == ValidateGarmentPhoto(SignalsOf(garment))
    IN  ~report.ok /\ report.score < 35

\* the worker loop over jobs created with any of the garment photos
NextGarments ==
    \/ \E p \in PersonRefs, g \in GarmentUploads : CreateJob(p, g)
    \/ Tick
    \/ \E w \in Workers : SweepSelect(w)
    \/ \E w \in Workers : SweepCommit(w)
    \/ \E w \in Workers : ClaimSelect(w)
    \/ \E w \in Workers : ClaimCommit(w)
    \/ \E w \in Workers : LoopProcessOne(w)
    \/ \E w \in Workers : Pipeline(w)
    \/ \E w \in Workers : MarkDone(w)
    \/ \E w \in Workers : MarkError(w)

SpecGarments == Init /\ [][NextGarments]_vars

\* C29: a run that reaches mark_done entered every pipeline statement in
\* program order, a failed run entered none after the failing one, and a job
\* whose garment fails the quality gate never gets as far as the anchor
\* locator: its run ends in the handler with GARMENT_IMAGE_LOW_QUALITY and the
\* job is never done.
C29_QualityGateFirst ==
    /\ \A w \in Workers :
          /\ wk[w].pc = "mark_done" => wk[w].stages = Len(PipelineStages)
          /\ (wk[w].pc \in {"mark_done", "mark_error"}
                /\ FailsQualityGate(wk[w].snap.garment)
                /\ wk[w].stages >= StageIndex("read_garment"))
               => /\ wk[w].pc = "mark_error"
                  /\ wk[w].code = "GARMENT_IMAGE_LOW_QUALITY"
                  /\ wk[w].stages < StageIndex("anchor")
    /\ \A j \in Ids : FailsQualityGate(db[j].garment) => db[j].status # "done"

\* the part of C29 the code keeps: a run that ends in mark_done entered every
\* statement, and a run without a usable anchor entered nothing after it
C29_OrderWithoutGate ==
    \A w \in Workers :
        /\ wk[w].pc = "mark_done" => wk[w].stages = Len(PipelineStages)
        /\ (wk[w].pc = "mark_error" /\ wk[w].code = "POSE_NOT_FOUND")
             => wk[w].stages = StageIndex("anchor")

\* ------------------------------------------------ garment_cutout_auto_bgra
\* the kinds of pixel of a garment photo, by HSV value and saturation: around
\* the value thresholds 232 and 235 and the saturation threshold 35
PixelKinds == {<<232, 35>>, <<231, 35>>, <<232, 36>>, <<255, 0>>}

\* how many pixels of one kind a photo has
PixelCounts == {0, 1, 9, 10, 11}

\* a photo: the number of its pixels of each kind, at least one pixel
Photos == {p \in [PixelKinds -> PixelCounts] : \E k \in PixelKinds : p[k] > 0}

RECURSIVE SumOver(_, _)
SumOver(p, kinds) ==
    IF kinds = {} THEN 0
    ELSE LET k == CHOOSE x \in kinds : TRUE
         IN  p[k] + SumOver(p, kinds \ {k})

\* the threshold validate_garment_photo measures the white ratio at
ValidateThreshold == 235

\* the threshold garment_cutout_auto_bgra measures the white ratio at
CutoutThreshold == 232

\* _estimate_white_bg_ratio: mask = (v >= thr) & (s <= 35), mean of the mask,
\* as the pair <<pixels in the mask, pixels>>
EstimateWhiteBgRatio(p, thr) ==
    <<SumOver(p, {k \in PixelKinds : k[1] >= thr /\ k[2] <= 35}),
      SumOver(p, PixelKinds)>>

\* ratio >= 0.55
AtLeast55Percent(ratio) == 100 * ratio[1] >= 55 * ratio[2]

\* garment_cutout_auto_bgra: the cutout functions it calls
GarmentCutoutAutoBgra(p) ==
    LET white_ratio == EstimateWhiteBgRatio(p, CutoutThreshold)
    IN  IF AtLeast55Percent(white_ratio)
        THEN [ran |-> {"_remove_white_background_to_bgra"}]
        ELSE [ran |-> {"_grabcut_cutout_to_bgra"}]

InitCutout ==
    /\ StoreAtRest
    /\ \E p \in Photos : call = NewCall("garment_cutout_auto_bgra", p)

Cutout ==
    /\ call.fn = "garment_cutout_auto_bgra"
    /\ ~call.returned
    /\ Return(GarmentCutoutAutoBgra(call.arg))
    /\ StoreUntouched

NextCutout == Cutout

SpecCutout == InitCutout /\ [][NextCutout]_vars

\* C30: garment_cutout_auto_bgra runs the white-removal path and nothing else
\* when the share of pixels with value >= 232 and saturation <= 35 is at least
\* 0.55, and the GrabCut path and nothing else when it is below 0.55.
C30_CutoutDispatch ==
    Returned("garment_cutout_auto_bgra") =>
        LET p == call.arg
            white == SumOver(p, {k \in PixelKinds : k[1] >= 232 /\ k[2] <= 35})
            all == SumOver(p, PixelKinds)
        IN  /\ Cardinality(call.out.ran) = 1
            /\ 100 * white >= 55 * all
                 <=> call.out.ran = {"_remove_white_background_to_bgra"}
            /\ 100 * white < 55 * all
                 <=> call.out.ran = {"_grabcut_cutout_to_bgra"}

\* a photo of 20 pixels, 11 of them white at 232 and none white at 235, took
\* the white-removal path: the ratio is exactly 0.55
C30_Witness ==
    /\ Returned("garment_cutout_auto_bgra")
    /\ call.arg[<<232, 35>>] = 11 /\ call.arg[<<255, 0>>] = 0
    /\ SumOver(call.arg, PixelKinds) = 20
    /\ call.out.ran = {"_remove_white_background_to_bgra"}

\* C31: overlay_bgra_on_bgr (either version) returns an image of the
\* background's size that differs from the background only inside the
\* intersection of the background with the rectangle [x, x+fw) x [y, y+fh); at a
\* position (row r, column c) of the intersection it is the blend of foreground
\* pixel (r - y, c - x) with the background pixel; with an empty intersection it
\* equals the background; and the caller's background is as it was.
C31_OverlayFrame ==
    (call.fn \in OverlayFns /\ call.returned) =>
        LET q == call.arg
            image == call.out.image
        IN
        /\ DOMAIN image = Positions(q.bh, q.bw)
        /\ \A p \in Positions(q.bh, q.bw) \ OverlapRegion(q) :
              image[p] = BasePixel(p[1], p[2])
        /\ \A p \in OverlapRegion(q) :
              image[p] = (FgPixel(p[1] - q.y, p[2] - q.x) * q.alpha
                            + BasePixel(p[1], p[2]) * (255 - q.alpha)) \div 255
        /\ OverlapRegion(q) = {} => image = BaseImage(q)
        /\ call.out.base = BaseImage(q)

\* a half-transparent 2x2 foreground placed at (1, 1) on a 2x2 background, past
\* the right and bottom edges: only the lower right pixel changed, blended with
\* the foreground's top left pixel
C31_Witness ==
    /\ call.fn \in OverlayFns /\ call.returned
    /\ call.arg.alpha = 128
    /\ call.arg.bh = 2 /\ call.arg.bw = 2
    /\ call.arg.fh = 2 /\ call.arg.fw = 2
    /\ call.arg.x = 1 /\ call.arg.y = 1
    /\ call.out.image[<<1, 1>>] # BasePixel(1, 1)
    /\ call.out.image[<<1, 1>>] = (FgPixel(0, 0) * 128 + BasePixel(1, 1) * 127) \div 255
    /\ call.out.image[<<0, 0>>] = BasePixel(0, 0)
    /\ call.out.base[<<1, 1>>] = BasePixel(1, 1)

\* the smallest side the live locator accepts for the clamped box is 21
MinUsableSide == 21

\* C32: the anchor locator (either version) returns null when the pose model
\* found no landmarks, when a shoulder or a hip has visibility below 0.4, and
\* when the box clamped to the image has a side below the minimum usable size;
\* so a box returned comes from visible landmarks only.
C32_NullOnWeakLandmarks ==
    (call.fn \in AnchorFns /\ call.returned /\ call.out.found)
        => /\ call.arg.detect = "ok"
           /\ call.out.w >= MinUsableSide
           /\ call.out.h >= MinUsableSide

\* what the locator of the worker loop, app/ai/pose.py, guarantees: no box
\* without landmarks or with a shoulder below the floor, and none with a side
\* of 20 pixels or less
C32_LiveShoulderFloor ==
    (Returned("detect_torso_anchor_mediapipe") /\ call.out.found)
        => /\ call.arg.detect \in {"ok", "low_hip_visibility"}
           /\ call.out.w >= MinUsableSide
           /\ call.out.h >= MinUsableSide

\* ------------- backend/crud.py, backend/worker.py, app/workers/tasks.py
\* the rows of the earlier tryon_jobs table (backend/models.py) a caller can
\* hold, and the lengths of the messages it can pass
LegacyStatuses == {"queued", "processing", "done", "error"}

MessageLens == {0, WatchdogMessageLen, MaxErrorMessageLen, MaxErrorMessageLen + 1}

LegacyRows ==
    [status : LegacyStatuses, result : {Null, 1}, error_message : {Null, 40},
     last_error : {Null, 40}, attempts : 0..3, processing_started_at : {Null, 0}]

\* backend/crud.py: set_error(db, job, message), the row after the commit
SetError(job, msglen) ==
    [job EXCEPT !.status = "error",
                !.error_message = msglen,
                !.last_error = msglen,
                !.processing_started_at = Null]

\* backend/worker.py: _set_processing(db, job), the row after the commit
SetProcessing(job) ==
    [job EXCEPT !.status = "processing",
                !.attempts = job.attempts + 1,
                !.last_error = Null,
                !.error_message = Null,
                !.processing_started_at = Null]

\* app/workers/tasks.py: process_tryon_job(job_id), the row after its first
\* commit: status and error_message are the only columns assigned
TaskSetProcessing(job) ==
    [job EXCEPT !.status = "processing", !.error_message = Null]

\* backend/crud.py: the default max_attempts of claim_next_job_atomic and
\* requeue_stuck_jobs
LegacyMaxAttempts == 3

\* the lengths of the texts requeue_stuck_jobs stores
RequeueNoteLen == 43
ExceededNoteLen == 55
ExceededMessageLen == 41

\* COALESCE(last_error, '') || (newline unless empty) || note
AppendNote(last_error, notelen) ==
    IF last_error = Null \/ last_error = 0 THEN notelen
    ELSE last_error + 1 + notelen

\* backend/crud.py: requeue_stuck_jobs, what its two UPDATEs make of a row whose
\* processing_started_at, when set, is older than the timeout
RequeueStuckJobs(job) ==
    IF job.status = "processing" /\ job.processing_started_at # Null
    THEN IF job.attempts < LegacyMaxAttempts
         THEN [job EXCEPT !.status = "queued",
                          !.last_error = AppendNote(job.last_error, RequeueNoteLen),
                          !.processing_started_at = Null]
         ELSE [job EXCEPT !.status = "error",
                          !.error_message = ExceededMessageLen,
                          !.last_error = AppendNote(job.last_error, ExceededNoteLen),
                          !.processing_started_at = Null]
    ELSE job

\* backend/crud.py: claim_next_job_atomic, what its UPDATE makes of the only row
\* of the table, at time 0
ClaimNextJobAtomic(job) ==
    IF job.status = "queued" /\ job.attempts < LegacyMaxAttempts
    THEN [job EXCEPT !.status = "processing",
                     !.processing_started_at = 0,
                     !.attempts = job.attempts + 1,
                     !.last_error = Null,
                     !.error_message = Null]
    ELSE job

LegacyFns ==
    {"set_error", "_set_processing", "process_tryon_job", "requeue_stuck_jobs",
     "claim_next_job_atomic"}

InitLegacy ==
    /\ StoreAtRest
    /\ \E job \in LegacyRows, n \in MessageLens, fn \in LegacyFns :
         call = NewCall(fn, [job |-> job, message |-> n])

LegacySetError ==
    /\ call.fn = "set_error"
    /\ ~call.returned
    /\ Return(SetError(call.arg.job, call.arg.message))
    /\ StoreUntouched

LegacySetProcessing ==
    /\ call.fn = "_set_processing"
    /\ ~call.returned
    /\ Return(SetProcessing(call.arg.job))
    /\ StoreUntouched

LegacyProcessTryonJob ==
    /\ call.fn = "process_tryon_job"
    /\ ~call.returned
    /\ Return(TaskSetProcessing(call.arg.job))
    /\ StoreUntouched

LegacyRequeueStuckJobs ==
    /\ call.fn = "requeue_stuck_jobs"
    /\ ~call.returned
    /\ Return(RequeueStuckJobs(call.arg.job))
    /\ StoreUntouched

LegacyClaimNextJobAtomic ==
    /\ call.fn = "claim_next_job_atomic"
    /\ ~call.returned
    /\ Return(ClaimNextJobAtomic(call.arg.job))
    /\ StoreUntouched

NextLegacy ==
    \/ LegacySetError
    \/ LegacySetProcessing
    \/ LegacyProcessTryonJob
    \/ LegacyRequeueStuckJobs
    \/ LegacyClaimNextJobAtomic

SpecLegacy == InitLegacy /\ [][NextLegacy]_vars

\* C33: the stored error_message of every job is at most 2000 characters long,
\* whether mark_error, fail_stuck_jobs or set_error wrote it and however long
\* the failure text was.
C33_ErrorMessageBounded ==
    /\ \A j \in Ids : db[j].error_message <= MaxErrorMessageLen
    /\ Returned("set_error") => call.out.error_message <= MaxErrorMessageLen

\* the same for the table backend/app writes: mark_error and fail_stuck_jobs
C33_LiveMessageBounded ==
    \A j \in Ids : db[j].error_message <= MaxErrorMessageLen

\* the order in which validate_garment_photo is specified to evaluate the
\* signals: resolution, sharpness, brightness, background, texture
SignalOrder ==
    <<"LOW_RESOLUTION", "TOO_BLURRY", "LOW_LIGHT", "BUSY_BACKGROUND",
      "TOO_MUCH_TEXTURE">>

PlaceOf(reason) == CHOOSE i \in 1..Len(SignalOrder) : SignalOrder[i] = reason

\* C34: the reasons of a report are the failed signals, each once, in the
\* evaluation order; the tips are the tips of the first 4 reasons in that
\* order; a photo that fails all five signals gets 5 reasons and 4 tips.
C34_ReasonsAndTips ==
    Returned("validate_garment_photo") =>
        LET reasons == call.out.reason_list
            tips == call.out.tips
            failed == FailedSignals(call.arg)
        IN
        /\ {reasons[i] : i \in 1..Len(reasons)} = failed
        /\ \A i \in 1..Len(reasons), k \in 1..Len(reasons) :
              i < k => PlaceOf(reasons[i]) < PlaceOf(reasons[k])
        /\ Len(tips) = (IF Len(reasons) > 4 THEN 4 ELSE Len(reasons))
        /\ \A i \in 1..Len(tips) : tips[i] = TipOf(reasons[i])
        /\ Cardinality(failed) = 5 => Len(reasons) = 5 /\ Len(tips) = 4

\* a photo failing all five signals has been reported: five reasons, and the
\* tip for the texture is the one left out
C34_Witness ==
    /\ Returned("validate_garment_photo")
    /\ call.out.reason_list = SignalOrder
    /\ Len(call.out.tips) = 4
    /\ call.out.tips[4] = TipOf("BUSY_BACKGROUND")

\* worker w commits mark_done or mark_error for its job
TerminalWrite(w) ==
    /\ wk[w].pc \in {"mark_done", "mark_error"}
    /\ wk'[w] # wk[w]

\* C35: when a worker commits mark_done or mark_error for a job that is no
\* longer in processing (the watchdog has timed it out meanwhile), the commit
\* leaves the job's row as it is: status, error fields and result reference
\* are not overwritten.
C35_NoStaleTerminalWrite ==
    [][\A w \in Workers :
         (/\ TerminalWrite(w)
          /\ db[wk[w].jid].status = "error"
          /\ db[wk[w].jid].error_code = "WORKER_TIMEOUT")
            => db'[wk[w].jid] = db[wk[w].jid]]_vars

\* C36: every job in processing has a processing_started_at, in the table and
\* in the row each of the operations that set status to processing leaves:
\* claim_next_job, mark_processing, _set_processing and process_tryon_job.
C36_ProcessingHasStart ==
    /\ \A j \in Ids :
          db[j].status = "processing" => db[j].processing_started_at # Null
    /\ (call.fn \in {"_set_processing", "process_tryon_job"} /\ call.returned)
          => (call.out.status = "processing"
                => call.out.processing_started_at # Null)

\* the same for the table backend/app writes: claim_next_job and
\* mark_processing
C36_LiveProcessingHasStart ==
    \A j \in Ids :
        db[j].status = "processing" => db[j].processing_started_at # Null

\* C37: no step lowers the attempts of a job; the commits of mark_done,
\* mark_error and fail_stuck_jobs leave the attempts of every job as they are;
\* and a step that changes the attempts of a job takes that job from queued to
\* processing.
C37_AttemptsFrame ==
    [][/\ \A j \in Ids : db'[j].attempts >= db[j].attempts
       /\ (\E w \in Workers : TerminalWrite(w) \/ SweepCommits(w))
             => \A j \in Ids : db'[j].attempts = db[j].attempts
       /\ \A j \in Ids : db'[j].attempts > db[j].attempts
             => db[j].status = "queued" /\ db'[j].status = "processing"]_vars

\* the same frame for the functions of backend/crud.py: requeue_stuck_jobs
\* leaves attempts as they are, and claim_next_job_atomic changes them only by
\* adding 1 to a queued row it takes to processing
C37_LegacyAttemptsFrame ==
    /\ Returned("requeue_stuck_jobs")
          => call.out.attempts = call.arg.job.attempts
    /\ Returned("claim_next_job_atomic")
          => /\ call.out.attempts >= call.arg.job.attempts
             /\ call.out.attempts # call.arg.job.attempts
                   => /\ call.arg.job.status = "queued"
                      /\ call.out.status = "processing"
                      /\ call.out.attempts = call.arg.job.attempts + 1

\* two jobs were claimed once each; the watchdog failed one and mark_done
\* finished the other, and both still count one attempt
C37_Witness ==
    \E j \in Ids, k \in Ids :
        /\ db[j].status = "error" /\ db[j].error_code = "WORKER_TIMEOUT"
        /\ db[k].status = "done"
        /\ db[j].attempts = 1 /\ db[k].attempts = 1

\* job j exists and is in done or error
Terminal(j) == j \in Ids /\ db[j].status \in {"done", "error"}

\* job j was left in processing by a crashed worker and its timeout has not
\* passed yet: it waits for the clock
OrphanWaiting(j) == j \in Ids /\ Orphaned(j) /\ ~OlderThanTimeout(db[j])

MaxClock == 2
MaxChecks == 4
RpmLimits == {1, 2}
TokenScale == 2

\* everything the limiter leaves alone
LimiterFrame == UNCHANGED <<db, now, skipLocked, lock, wk, artifacts, direct, claims, call>>

\* time.monotonic() advances
ClockTick ==
    /\ limiter.clock < MaxClock
    /\ limiter' = [limiter EXCEPT !.clock = @ + 1]
    /\ LimiterFrame

\* check, lines 31-36: rpm_limit > 0, now = time.monotonic(), read before the
\* lock is taken
ReadClock(t, rpm) ==
    /\ limiter.th[t].pc = "idle"
    /\ limiter.checks < MaxChecks
    /\ limiter' = [limiter EXCEPT
                     !.th[t] = [pc |-> "wait", now |-> limiter.clock, rpm |-> rpm,
                                result |-> "none"],
                     !.checks = @ + 1,
                     !.rpms = @ \cup {rpm}]
    /\ LimiterFrame

\* _new_bucket, called by the defaultdict at the first access of the key
NewBucket == [exists |-> TRUE, tokens |-> 0, ts |-> limiter.clock, cap |-> 0]

\* check, lines 42-52: the capacity adjustment and the refill
Refilled(b, now_, rpm) ==
    LET cap == TokenScale * rpm
        b1 == IF b.cap # cap
              THEN [b EXCEPT !.cap = cap,
                             !.tokens = IF b.tokens <= 0 THEN cap ELSE b.tokens]
              ELSE b
        elapsed == now_ - b1.ts
    IN  [b1 EXCEPT !.ts = now_,
                   !.tokens = Min(cap, b1.tokens + elapsed * rpm)]

\* check, lines 38-52: with self._lock, from the acquisition to the refill
Enter(t) ==
    /\ limiter.th[t].pc = "wait"
    /\ limiter.holder = 0
    /\ LET b == IF limiter.bucket.exists THEN limiter.bucket ELSE NewBucket IN
       limiter' = [limiter EXCEPT
                     !.holder = t,
                     !.bucket = Refilled(b, limiter.th[t].now, limiter.th[t].rpm),
                     !.th[t].pc = "locked"]
    /\ LimiterFrame

\* check, lines 54-64: reject with RATE_LIMIT or take one token; the lock is
\* released either way
Decide(t) ==
    /\ limiter.th[t].pc = "locked"
    /\ IF limiter.bucket.tokens < TokenScale
       THEN limiter' = [limiter EXCEPT
                          !.holder = 0,
                          !.th[t].pc = "idle",
                          !.th[t].result = "RATE_LIMIT"]
       ELSE limiter' = [limiter EXCEPT
                          !.holder = 0,
                          !.bucket.tokens = @ - TokenScale,
                          !.allowed = @ + 1,
                          !.th[t].pc = "idle",
                          !.th[t].result = "allowed"]
    /\ LimiterFrame

NextLimiter ==
    \/ ClockTick
    \/ \E t \in Threads, rpm \in RpmLimits : ReadClock(t, rpm)
    \/ \E t \in Threads : Enter(t)
    \/ \E t \in Threads : Decide(t)

SpecLimiter == Init /\ [][NextLimiter]_vars

\* thread t leaves check
Decides(t) == limiter.th[t].pc = "locked" /\ limiter'.th[t].pc = "idle"

\* what C39 says of a check when it decides
DecidesAsSpecified(t) ==
    /\ limiter'.th[t].result = "allowed" <=> limiter.bucket.tokens >= TokenScale
    /\ limiter'.th[t].result = "RATE_LIMIT" <=> limiter.bucket.tokens < TokenScale
    /\ limiter'.th[t].result = "allowed"
          => limiter'.bucket.tokens = limiter.bucket.tokens - TokenScale
    /\ limiter'.th[t].result = "RATE_LIMIT"
          => limiter'.bucket.tokens = limiter.bucket.tokens

\* what C39 says of the first checks of a key at one rpm_limit while the clock
\* stands still: as many are allowed as the limit
BurstIsLimit ==
    (/\ limiter.clock = 0
     /\ \A t \in Threads : limiter.th[t].pc = "idle"
     /\ \E r \in RpmLimits : limiter.rpms = {r})
        => \A r \in limiter.rpms :
              limiter.allowed = (IF limiter.checks < r THEN limiter.checks ELSE r)

\* at most one thread is inside the locked region
Serialized ==
    Cardinality({t \in Threads : limiter.th[t].pc = "locked"}) <= 1

\* C39: after every check the key's tokens are between 0 and rpm_limit; a check
\* is allowed, taking exactly one token, exactly when the refilled count is at
\* least 1, and is rejected with RATE_LIMIT otherwise, taking none; a key's
\* first checks allow rpm_limit requests when no time passes; checks of the
\* same key are serialized.
C39_TokenBucket ==
    /\ [](limiter.holder = 0 /\ limiter.bucket.exists
            => /\ limiter.bucket.tokens >= 0
               /\ limiter.bucket.tokens <= limiter.bucket.cap)
    /\ [](BurstIsLimit /\ Serialized)
    /\ [][\A t \in Threads : Decides(t) => DecidesAsSpecified(t)]_vars

\* the parts of C39 the code keeps: the upper bound, the decision rule, the
\* burst and the serialization
C39_AllButLowerBound ==
    /\ [](limiter.holder = 0 /\ limiter.bucket.exists
            => limiter.bucket.tokens <= limiter.bucket.cap)
    /\ [](BurstIsLimit /\ Serialized)
    /\ [][\A t \in Threads : Decides(t) => DecidesAsSpecified(t)]_vars

====
